---------------------------- MODULE Spec2Model ----------------------------
(***************************************************************************)
(* Model of the Oracle HCM conversational agent: the plan validator of     *)
(* app/llm/planner.py, the HCM client of app/oracle/hcm_client.py, the     *)
(* executor of app/tools/hcm_tool.py and the plan -> execute -> respond    *)
(* graph of app/graph/agent.py.                                            *)
(*                                                                         *)
(* Strings are sequences of tokens.  A token is an atomic piece of text;   *)
(* the token alphabet is prefix-free, so two strings are equal exactly     *)
(* when their token sequences are equal and str.startswith is the prefix   *)
(* relation on token sequences.  "/" is a token of its own, so a path      *)
(* segment is a maximal run of tokens other than "/".                      *)
(*                                                                         *)
(* Python's None is the empty tuple <<>>, a present value x is <<x>>.      *)
(* A dict is a set of <<key, value>> pairs with pairwise distinct keys.    *)
(***************************************************************************)
EXTENDS Integers, Sequences, FiniteSets, TLC

VARIABLES
    pc,       \* control position of the running coroutine
    arg,      \* argument of the operation under way
    ret,      \* what the operation returned or raised, None while it runs
    config,   \* OracleHCMClient._config
    client,   \* OracleHCMClient._client: None or the transport instance
    created,  \* number of transport instances constructed so far
    hcm,      \* the HCM server: number of items of the collection it serves
    net,      \* the request awaited in client.request, None when there is none
    sent,     \* the requests handed to the transport, in order
    pag,      \* frame of get_paginated, None when it is not running
    exe,      \* frame of execute_calls, None when it is not running
    failed,   \* positions of the calls one of whose requests failed
    recv,     \* the responses received and what request_json made of each, in order
    state,    \* the AgentState of the chat request, None outside a chat request
    stages,   \* the starts and ends of the graph's nodes, in order
    tasks,    \* the requests that share the client: position and transport of each
    closer,   \* the caller of close(): position, calls made, transport it holds
    closed    \* the transport instances that aclose has released

vars == <<pc, arg, ret, config, client, created, hcm, net, sent, pag, exe,
          failed, recv, state, stages, tasks, closer, closed>>

\* everything but the control position, the argument and the return value
rest == <<config, client, created, hcm, net, sent, pag, exe, failed, recv,
          state, stages, tasks, closer, closed>>

\* what belongs to the requests that share one client, and to close()
shared == <<tasks, closer, closed>>

None == <<>>

Some(x) == <<x>>

-----------------------------------------------------------------------------
(* Strings                                                                 *)

SLASH == "/"

\* s[i..] (the slice s[i-1:] of Python)
Tail_(s, i) == SubSeq(s, i, Len(s))

\* str.startswith
StartsWith(s, prefix) ==
    /\ Len(prefix) <= Len(s)
    /\ SubSeq(s, 1, Len(prefix)) = prefix

\* old occurs in s at position i
OccursAt(s, old, i) ==
    /\ i + Len(old) - 1 <= Len(s)
    /\ SubSeq(s, i, i + Len(old) - 1) = old

RECURSIVE ReplaceFrom(_, _, _, _)
ReplaceFrom(s, old, new, i) ==
    IF i > Len(s) THEN <<>>
    ELSE IF OccursAt(s, old, i)
         THEN new \o ReplaceFrom(s, old, new, i + Len(old))
         ELSE <<s[i]>> \o ReplaceFrom(s, old, new, i + 1)

\* str.replace(old, new): every non-overlapping occurrence, left to right
StrReplace(s, old, new) == ReplaceFrom(s, old, new, 1)

\* str.split(sep)[0]: the text before the first occurrence of the token sep
SplitFirst(s, sep) ==
    IF \E i \in 1..Len(s) : s[i] = sep
    THEN SubSeq(s, 1, (CHOOSE i \in 1..Len(s) :
                          s[i] = sep /\ \A j \in 1..(i - 1) : s[j] # sep) - 1)
    ELSE s

\* str.upper on HTTP method names
Upper(m) ==
    CASE m = "get"  -> "GET"
      [] m = "Get"  -> "GET"
      [] m = "post" -> "POST"
      [] OTHER      -> m

-----------------------------------------------------------------------------
(* app/llm/schemas.py                                                      *)

HCM_API_DEFAULT_VERSION == "11.13.18.05"

\* The catalog in the iteration order of the nested dicts.
HCM_API_ENDPOINTS ==
    << [group |-> "Users", key |-> "listUserAccounts", method |-> "GET",
        path |-> <<"/", "hcmRestApi", "/", "resources", "/",
                   "{", "version", "}", "/", "userAccounts">>,
        queryParams |-> <<>>],
       [group |-> "Users", key |-> "getUserAccountByGUID", method |-> "GET",
        path |-> <<"/", "hcmRestApi", "/", "resources", "/",
                   "{", "version", "}", "/", "userAccounts", "/",
                   "{", "GUID", "}">>,
        queryParams |-> <<>>] >>

APICall(description, method, path, params, body) ==
    [description |-> description, method |-> method, path |-> path,
     params |-> params, body |-> body]

Plan(intent, api_calls) == [intent |-> intent, api_calls |-> api_calls]

-----------------------------------------------------------------------------
(* app/llm/planner.py                                                      *)

\* length of the maximal run of non-"/" tokens of s that starts at i
RECURSIVE RunLen(_, _)
RunLen(s, i) ==
    IF i > Len(s) \/ s[i] = SLASH THEN 0 ELSE 1 + RunLen(s, i + 1)

\* the regular expression /resources/[^/]+/ matches s at position i
VersionMatchAt(s, i) ==
    /\ OccursAt(s, <<"/", "resources", "/">>, i)
    /\ RunLen(s, i + 3) >= 1
    /\ i + 3 + RunLen(s, i + 3) <= Len(s)

RECURSIVE ForceFrom(_, _)
ForceFrom(s, i) ==
    IF i > Len(s) THEN <<>>
    ELSE IF VersionMatchAt(s, i)
         THEN <<"/", "resources", "/", HCM_API_DEFAULT_VERSION, "/">>
              \o ForceFrom(s, i + 4 + RunLen(s, i + 3))
         ELSE <<s[i]>> \o ForceFrom(s, i + 1)

\* mutant of _force_version: the pattern lacks the version segment, the
\* version is inserted after every /resources/
_force_version_Insert(path) ==
    StrReplace(path, <<"/", "resources", "/">>,
               <<"/", "resources", "/", HCM_API_DEFAULT_VERSION, "/">>)

\* re.sub(r"/resources/[^/]+/", f"/resources/{VERSION}/", path)
_force_version(path) == ForceFrom(path, 1)

\* the literal prefix of a catalog template, up to its first placeholder
TemplatePrefix(entry) ==
    SplitFirst(StrReplace(entry.path, <<"{", "version", "}">>,
                          <<HCM_API_DEFAULT_VERSION>>), "{")

\* index in the catalog of the first entry whose prefix the path starts with,
\* 0 when there is none (the function returns None)
_match_catalog_entry(path) ==
    LET normalized == StrReplace(path,
                         <<"/", "resources", "/", "latest", "/">>,
                         <<"/", "resources", "/", HCM_API_DEFAULT_VERSION, "/">>)
        hits == {n \in 1..Len(HCM_API_ENDPOINTS) :
                    StartsWith(normalized, TemplatePrefix(HCM_API_ENDPOINTS[n]))}
    IN  IF hits = {} THEN 0
        ELSE CHOOSE n \in hits : \A m \in hits : n <= m

\* set(entry.get("queryParams", []) or [])
AllowedParams(entry) == {entry.queryParams[n] : n \in 1..Len(entry.queryParams)}

\* ConstrainCall with the parameter filter of a matched call left out
ConstrainCall_KeepMatchedParams(call) ==
    LET path == _force_version(call.path)
    IN  IF _match_catalog_entry(path) = 0
        THEN [call EXCEPT !.path = path, !.params = {}]
        ELSE [call EXCEPT !.path = path,
                          !.body = IF Upper(call.method) = "GET"
                                   THEN None ELSE call.body]

\* ConstrainCall with the deny-by-default clearing of an unmatched call left out
ConstrainCall_KeepUnmatchedParams(call) ==
    LET path    == _force_version(call.path)
        matched == _match_catalog_entry(path)
    IN  IF matched = 0
        THEN [call EXCEPT !.path = path]
        ELSE [call EXCEPT !.path = path,
                          !.params = {},
                          !.body = IF Upper(call.method) = "GET"
                                   THEN None ELSE call.body]

\* one iteration of the loop of _constrain_plan_to_catalog
ConstrainCall(call) ==
    LET path    == _force_version(call.path)
        matched == _match_catalog_entry(path)
    IN  IF matched = 0
        THEN [call EXCEPT !.path = path, !.params = {}]
        ELSE LET allowed_params == AllowedParams(HCM_API_ENDPOINTS[matched])
                 params == IF allowed_params = {} THEN {}
                           ELSE {kv \in call.params : kv[1] \in allowed_params}
             IN  [call EXCEPT !.path = path,
                              !.params = params,
                              !.body = IF Upper(call.method) = "GET"
                                       THEN None ELSE call.body]

\* _constrain_plan_to_catalog that drops the calls it cannot match
_constrain_plan_to_catalog_DropUnmatched(plan) ==
    [plan EXCEPT !.api_calls =
        SelectSeq([n \in 1..Len(plan.api_calls) |-> ConstrainCall(plan.api_calls[n])],
                  LAMBDA c : _match_catalog_entry(c.path) # 0)]

_constrain_plan_to_catalog(plan) ==
    [plan EXCEPT !.api_calls =
        [n \in 1..Len(plan.api_calls) |-> ConstrainCall(plan.api_calls[n])]]

-----------------------------------------------------------------------------
(* Inputs of the validator: the plans the language model may propose       *)

MaxCalls == 2

ProposedPaths ==
    { <<"/", "hcmRestApi", "/", "resources", "/", "11.13.18.05", "/", "userAccounts">>,
      <<"/", "hcmRestApi", "/", "resources", "/", "latest", "/", "userAccounts">>,
      <<"/", "hcmRestApi", "/", "resources", "/", "11.13.18.04", "/", "userAccounts",
        "/", "ABC-123">>,
      <<"/", "hcmRestApi", "/", "resources", "/", "latest", "/", "workers">>,
      <<"/", "hcmRestApi", "/", "resources", "/", "userAccounts">> }

ProposedMethods == {"GET", "get", "POST"}

ProposedParams ==
    { {}, {<<"filter", "GUID eq ABC-123">>, <<"PersonId", "7">>} }

ProposedBodies == { None, Some({<<"Username", "jdoe">>}) }

\* the description of the n-th call of a proposal
Description(n) == <<"step", n>>

ProposedShapes ==
    [method : ProposedMethods, path : ProposedPaths,
     params : ProposedParams, body : ProposedBodies]

\* the plan whose n-th call has the shape sh[n]
ProposedPlan(sh) ==
    Plan("list user accounts",
         [n \in 1..Len(sh) |-> APICall(Description(n), sh[n].method, sh[n].path,
                                       sh[n].params, sh[n].body)])

-----------------------------------------------------------------------------
(* The validator called on a proposed plan                                 *)

\* the client as build_graph leaves it: configured, no transport yet
Idle ==
    /\ config = [base_url |-> <<"https://hcm.example.com">>, auth_method |-> "basic",
                 username |-> Some("svc"), password |-> Some("secret"),
                 oauth_token |-> None]
    /\ client = None
    /\ created = 0
    /\ hcm = 0
    /\ net = None
    /\ sent = <<>>
    /\ pag = None
    /\ exe = None
    /\ failed = {}
    /\ recv = <<>>
    /\ state = None
    /\ stages = <<>>
    /\ tasks = <<>>
    /\ closer = None
    /\ closed = {}

InitValidate ==
    /\ Idle
    /\ pc = "validate"
    /\ \E k \in 0..MaxCalls : \E sh \in [1..k -> ProposedShapes] :
          arg = ProposedPlan(sh)
    /\ ret = None

\* plan = _constrain_plan_to_catalog(plan); the function has no raise and
\* no await, it returns in one step
Validate ==
    /\ pc = "validate"
    /\ ret' = Some(_constrain_plan_to_catalog(arg))
    /\ pc' = "validated"
    /\ UNCHANGED <<arg, rest>>

\* the validator is called again, on the plan it has returned
Revalidate ==
    /\ pc = "validated"
    /\ arg' = ret[1]
    /\ ret' = Some(_constrain_plan_to_catalog(ret[1]))
    /\ pc' = "revalidated"
    /\ UNCHANGED rest

NextValidate == Validate \/ Revalidate

SpecValidate == InitValidate /\ [][NextValidate]_vars

-----------------------------------------------------------------------------
(* Properties of the validator                                             *)

\* the segments of a path: the runs of tokens between the "/" tokens
RECURSIVE Split(_)
Split(s) ==
    IF \E i \in 1..Len(s) : s[i] = SLASH
    THEN LET i == CHOOSE i \in 1..Len(s) :
                     s[i] = SLASH /\ \A j \in 1..(i - 1) : s[j] # SLASH
         IN  <<SubSeq(s, 1, i - 1)>> \o Split(Tail_(s, i + 1))
    ELSE <<s>>

\* q is p with nothing changed but segments that follow a "resources"
\* segment, and those are now the configured version
SameUpToVersion(p, q) ==
    LET sp == Split(p)
        sq == Split(q)
    IN  /\ Len(sp) = Len(sq)
        /\ \A k \in 1..Len(sp) :
              sp[k] # sq[k] => /\ k > 1
                               /\ sp[k - 1] = <<"resources">>
                               /\ sq[k] = <<HCM_API_DEFAULT_VERSION>>

\* every segment of p that follows a "resources" segment is the configured
\* version, and every "resources" segment is followed by one
Versioned(p) ==
    LET sp == Split(p)
    IN  \A k \in 1..Len(sp) :
           sp[k] = <<"resources">> =>
              k < Len(sp) /\ sp[k + 1] = <<HCM_API_DEFAULT_VERSION>>

Keys(d) == {kv[1] : kv \in d}

Validated == pc = "validated"

In(n) == arg.api_calls[n]

Out(n) == ret[1].api_calls[n]

\* the catalog entry the validator looks the n-th call up under (0: none)
MatchedEntry(n) == _match_catalog_entry(_force_version(In(n).path))

\* C1: after validation every call whose method is GET, in any letter case,
\* has no body, whether or not its path matches a catalog entry.
C1_GetCallsHaveNoBody ==
    Validated =>
        \A n \in 1..Len(ret[1].api_calls) :
            Upper(Out(n).method) = "GET" => Out(n).body = None

\* C2: after validation the segment after resources/ of every call's path is
\* the configured version; no path is left unversioned or wrong-versioned.
C2_EveryPathVersioned ==
    Validated =>
        \A n \in 1..Len(ret[1].api_calls) : Versioned(Out(n).path)

\* C3: for a call matching a catalog entry with allow-list A, the keys of
\* params after validation are in A, every kept key keeps its proposed
\* value, and params is empty when A is empty.
C3_ParamsWithinAllowList ==
    Validated =>
        \A n \in 1..Len(arg.api_calls) :
            MatchedEntry(n) # 0 =>
                LET A == AllowedParams(HCM_API_ENDPOINTS[MatchedEntry(n)])
                IN  /\ n <= Len(ret[1].api_calls)
                    /\ Keys(Out(n).params) \subseteq A
                    /\ Out(n).params \subseteq In(n).params
                    /\ (A = {} => Out(n).params = {})

\* a userAccounts call proposed with a filter parameter has been validated
C3_Witness ==
    /\ Validated
    /\ \E n \in 1..Len(arg.api_calls) :
          /\ MatchedEntry(n) # 0
          /\ HCM_API_ENDPOINTS[MatchedEntry(n)].key = "listUserAccounts"
          /\ "filter" \in Keys(In(n).params)
          /\ Out(n).params = {}

-----------------------------------------------------------------------------
(* Outcomes, dicts and JSON values                                         *)

\* the outcome of a call: an exception raised or a value returned
Raise(type, msg) == [raised |-> TRUE, value |-> [type |-> type, msg |-> msg]]

Return(v) == [raised |-> FALSE, value |-> v]

\* d[k]
Get(d, k) == (CHOOSE kv \in d : kv[1] = k)[2]

\* d.setdefault(k, v)
SetDefault(d, k, v) == IF k \in {kv[1] : kv \in d} THEN d ELSE d \cup {<<k, v>>}

\* d[k] = v
SetItem(d, k, v) == {kv \in d : kv[1] # k} \cup {<<k, v>>}

\* x or {}
OrEmpty(x) == IF x = None THEN {} ELSE x[1]

\* the values of a decoded JSON document carry their type
JList(v) == [t |-> "list", v |-> v]

JStr(v) == [t |-> "str", v |-> v]

JNum(v) == [t |-> "num", v |-> v]

JBool(v) == [t |-> "bool", v |-> v]

Min(a, b) == IF a < b THEN a ELSE b

-----------------------------------------------------------------------------
(* app/config.py: the configurations load_config can produce               *)

HCMConfig(auth_method, username, password, oauth_token) ==
    [base_url |-> <<"https://hcm.example.com">>, auth_method |-> auth_method,
     username |-> username, password |-> password, oauth_token |-> oauth_token]

Configs ==
    { HCMConfig("basic", Some("svc"), Some("secret"), None),
      HCMConfig("basic", Some("svc"), None, None),
      HCMConfig("oauth", None, None, Some("token")),
      HCMConfig("oauth", None, None, None) }

-----------------------------------------------------------------------------
(* The HCM server                                                          *)

\* the page of the collection a request with limit and offset is served
HcmPage(params) ==
    LET offset == Get(params, "offset")
        limit  == Get(params, "limit")
        n      == IF offset >= hcm THEN 0 ELSE Min(limit, hcm - offset)
    IN  { <<"items", JList([k \in 1..n |-> offset + k])>>,
          <<"hasMore", JBool(offset + limit < hcm)>> }

JSON == <<"application/json">>

HttpResponse(status_code, content_type, text, body) ==
    [kind |-> "response", status_code |-> status_code,
     content_type |-> content_type, text |-> text, body |-> body]

\* what awaiting client.request can produce: a transport error, an error
\* status, a redirect, or a 2xx response that is text, a JSON object without
\* items, a JSON object whose items is no list, or a page of the collection
HcmResponses(req) ==
    { [kind |-> "exception", text |-> "ConnectTimeout"],
      HttpResponse(404, <<"text/html">>, "Not Found", {}),
      HttpResponse(302, <<"text/html">>, "Moved", {}),
      HttpResponse(200, <<"text/plain">>, "OK", {}),
      HttpResponse(200, JSON \o <<"; charset=utf-8">>, "{..}",
                   {<<"Username", JStr("jdoe")>>}),
      HttpResponse(200, JSON, "{..}", {<<"items", JStr("n/a")>>}) }
    \cup
    IF {"limit", "offset"} \subseteq {kv[1] : kv \in OrEmpty(req.params)}
    THEN { HttpResponse(200, JSON, "{..}", HcmPage(OrEmpty(req.params))) }
    ELSE {}

-----------------------------------------------------------------------------
(* app/oracle/hcm_client.py                                                *)

DEFAULT_PAGE_SIZE == 100

DEFAULT_MAX_PAGES == 10

\* path if path.startswith("/") else f"/{path}"
UrlPath(path) == IF StartsWith(path, <<SLASH>>) THEN path ELSE <<SLASH>> \o path

build_url(path) == config.base_url \o UrlPath(path)

\* mutant of _get_client: a transport instance is constructed at every use
_get_client_AlwaysNew ==
    IF /\ config.auth_method = "basic"
       /\ (config.username = None \/ config.password = None)
    THEN Raise("ValueError", <<"Basic auth requires username and password">>)
    ELSE Return(Some(created + 1))

\* the transport instance, created on the first use
_get_client ==
    IF client = None
    THEN IF /\ config.auth_method = "basic"
            /\ (config.username = None \/ config.password = None)
         THEN Raise("ValueError", <<"Basic auth requires username and password">>)
         ELSE Return(Some(created + 1))
    ELSE Return(client)

_augment_headers(headers) ==
    IF config.auth_method = "oauth"
    THEN IF config.oauth_token = None
         THEN Raise("ValueError", <<"OAuth selected but HCM_OAUTH_TOKEN is empty">>)
         ELSE Return(SetItem(headers, "Authorization",
                             <<"Bearer", config.oauth_token[1]>>))
    ELSE Return(headers)

\* request_json up to its await of client.request: the request handed to
\* the transport, or the error raised before
RequestPrologue(method, path, params, json) ==
    IF _get_client.raised THEN _get_client
    ELSE LET req_headers == _augment_headers({})
         IN  IF req_headers.raised THEN req_headers
             ELSE Return([method |-> Upper(method), url_path |-> UrlPath(path),
                          params |-> params, json |-> json,
                          headers |-> req_headers.value])

\* the fields _client and the instance count after the prologue
PrologueClient ==
    /\ client' = IF _get_client.raised THEN client ELSE _get_client.value
    /\ created' = IF client = None /\ ~_get_client.raised
                  THEN created + 1 ELSE created

\* request_json after its await: what it makes of the response
RequestEpilogue(req, resp) ==
    IF resp.kind = "exception"
    THEN Raise("RuntimeError",
               <<"HTTP error calling HCM">> \o build_url(req.url_path)
                   \o <<":", resp.text>>)
    ELSE IF resp.status_code >= 400
         THEN Raise("RuntimeError",
                    <<"HCM API error", ToString(resp.status_code), "for",
                      req.method>> \o build_url(req.url_path)
                        \o <<":", resp.text>>)
         ELSE IF \E n \in 1..Len(resp.content_type) :
                     resp.content_type[n] = "application/json"
              THEN Return(resp.body)
              ELSE Return({ <<"status", JNum(resp.status_code)>>,
                            <<"content", JStr(resp.text)>> })

\* the locals of get_paginated when its loop is entered
PagFrame(path, params, page_size, max_pages) ==
    [path |-> path, base_params |-> OrEmpty(params), page_size |-> page_size,
     max_pages |-> max_pages, page_index |-> 0, all_items |-> <<>>,
     pages |-> <<>>]

\* the query parameters of the request for the page at page_index
PageParams(f) ==
    SetItem(SetDefault(f.base_params, "limit", f.page_size),
            "offset", f.page_index * f.page_size)

\* isinstance(data, dict) and "items" in data and isinstance(data["items"], list)
HasItemsList(data) ==
    /\ "items" \in {kv[1] : kv \in data}
    /\ Get(data, "items").t = "list"

\* the loop body of get_paginated after the response: the frame afterwards
PagAbsorb(f, data) ==
    IF HasItemsList(data)
    THEN [f EXCEPT !.all_items = @ \o Get(data, "items").v,
                   !.pages = Append(@, data)]
    ELSE [f EXCEPT !.pages = Append(@, data)]

\* PagBreaks breaking on an empty page only
PagBreaks_OnEmptyOnly(f, data) ==
    IF HasItemsList(data)
    THEN Len(Get(data, "items").v) = 0
    ELSE TRUE

\* the loop body ends in a break
PagBreaks(f, data) ==
    IF HasItemsList(data)
    THEN Len(Get(data, "items").v) < f.page_size
    ELSE TRUE

\* the return statement of get_paginated
PagResult(f) ==
    IF f.all_items # <<>>
    THEN { <<"items", JList(f.all_items)>>, <<"pages", JList(f.pages)>> }
    ELSE { <<"pages", JList(f.pages)>> }

-----------------------------------------------------------------------------
(* app/graph/agent.py: the graph                                           *)

AgentState(user_query, user_context) ==
    [user_query |-> user_query, user_context |-> user_context,
     plan |-> None, results |-> <<>>, answer |-> None]

\* set_entry_point
EntryPoint == "plan"

\* Edges with execute and respond exchanged
Edges_RespondFirst ==
    [plan |-> "respond", respond |-> "execute", execute |-> "END"]

\* add_edge: the node that runs after each node
Edges == [plan |-> "execute", execute |-> "respond", respond |-> "END"]

-----------------------------------------------------------------------------
(* app/tools/hcm_tool.py                                                   *)

ExecutionResult(call, response, error) ==
    [call |-> call, response |-> response, error |-> error]

\* the try/except of execute_calls around one call
ResultOf(call, outcome) ==
    IF outcome.raised
    THEN ExecutionResult(call, {}, Some(outcome.value.msg))
    ELSE ExecutionResult(call, outcome.value, None)

\* Deliver giving up the rest of the list after a call that raised
Deliver_ShortCircuit(o) ==
    IF exe = None
    THEN /\ ret' = Some(o)
         /\ pc' = "done"
         /\ exe' = exe
    ELSE /\ exe' = Some([exe[1] EXCEPT
                    !.results = Append(@, ResultOf(exe[1].calls[exe[1].i], o)),
                    !.i = IF o.raised THEN Len(exe[1].calls) + 1 ELSE @ + 1])
         /\ pc' = "exec_loop"
         /\ ret' = ret

\* an operation of the client ends with outcome o: execute_calls records it
\* and goes on with the next call; without execute_calls the operation was
\* called directly and o is its result
Deliver(o) ==
    IF exe = None
    THEN /\ ret' = Some(o)
         /\ pc' = "done"
         /\ exe' = exe
    ELSE /\ exe' = Some([exe[1] EXCEPT
                    !.results = Append(@, ResultOf(exe[1].calls[exe[1].i], o)),
                    !.i = @ + 1])
         /\ pc' = "exec_loop"
         /\ ret' = ret

\* position in the list of execute_calls of the call under way, 0 without
CallIndex == IF exe = None THEN 0 ELSE exe[1].i

\* an entry of the log of responses
Received(resp, o) == [call |-> CallIndex, response |-> resp, outcome |-> o]

\* a request of the call under way failed
NoteFailure(bad) ==
    failed' = IF bad THEN failed \cup {CallIndex}
              ELSE failed

\* get_paginated(path, params, page_size, max_pages) is called
GetPaginated ==
    /\ pc = "call_get_paginated"
    /\ pag' = Some(PagFrame(arg.path, arg.params, arg.page_size, arg.max_pages))
    /\ pc' = "pag_loop"
    /\ UNCHANGED <<arg, ret, config, client, created, hcm, net, sent, exe,
                   failed, recv>>
    /\ UNCHANGED <<state, stages>>
    /\ UNCHANGED shared

\* one pass of the loop up to the await in request_json
PagSend ==
    /\ pc = "pag_loop"
    /\ pag[1].page_index < pag[1].max_pages
    /\ LET o == RequestPrologue("GET", pag[1].path, Some(PageParams(pag[1])), None)
       IN  /\ PrologueClient
           /\ NoteFailure(o.raised)
           /\ IF o.raised
              THEN /\ pag' = None
                   /\ Deliver(o)
                   /\ UNCHANGED <<net, sent>>
              ELSE /\ net' = Some(o.value)
                   /\ sent' = Append(sent, o.value)
                   /\ pc' = "pag_await"
                   /\ UNCHANGED <<pag, exe, ret>>
    /\ UNCHANGED <<arg, config, hcm, recv>>
    /\ UNCHANGED <<state, stages>>
    /\ UNCHANGED shared

\* the response arrives: the rest of the loop body, then the next pass (after
\* asyncio.sleep(0)), or the break and the return, or the exception
PagReceive ==
    /\ pc = "pag_await"
    /\ \E resp \in HcmResponses(net[1]) :
          LET o == RequestEpilogue(net[1], resp)
              f == PagAbsorb(pag[1], o.value)
          IN  /\ recv' = Append(recv, Received(resp, o))
              /\ NoteFailure(resp.kind = "exception" \/ resp.status_code >= 400)
              /\ IF o.raised
                 THEN pag' = None /\ Deliver(o)
                 ELSE IF PagBreaks(pag[1], o.value)
                      THEN pag' = None /\ Deliver(Return(PagResult(f)))
                      ELSE /\ pag' = Some([f EXCEPT !.page_index = @ + 1])
                           /\ pc' = "pag_loop"
                           /\ UNCHANGED <<exe, ret>>
    /\ net' = None
    /\ UNCHANGED <<arg, config, client, created, hcm, sent>>
    /\ UNCHANGED <<state, stages>>
    /\ UNCHANGED shared

\* range(max_pages) is exhausted: the return statement
PagReturn ==
    /\ pc = "pag_loop"
    /\ pag[1].page_index >= pag[1].max_pages
    /\ pag' = None
    /\ Deliver(Return(PagResult(pag[1])))
    /\ UNCHANGED <<arg, config, client, created, hcm, net, sent, failed, recv>>
    /\ UNCHANGED <<state, stages>>
    /\ UNCHANGED shared

\* execute_calls(calls) is called
ExecuteCalls ==
    /\ pc = "call_execute_calls"
    /\ exe' = Some([calls |-> arg, i |-> 1, results |-> <<>>])
    /\ pc' = "exec_loop"
    /\ UNCHANGED <<arg, ret, config, client, created, hcm, net, sent, pag,
                   failed, recv>>
    /\ UNCHANGED <<state, stages>>
    /\ UNCHANGED shared

\* the next call of the list is a GET: get_paginated with its defaults
ExecGet ==
    /\ pc = "exec_loop"
    /\ exe[1].i <= Len(exe[1].calls)
    /\ LET call == exe[1].calls[exe[1].i]
       IN  /\ Upper(call.method) = "GET"
           /\ pag' = Some(PagFrame(call.path, Some(call.params),
                                   DEFAULT_PAGE_SIZE, DEFAULT_MAX_PAGES))
    /\ pc' = "pag_loop"
    /\ UNCHANGED <<arg, ret, config, client, created, hcm, net, sent, exe,
                   failed, recv>>
    /\ UNCHANGED <<state, stages>>
    /\ UNCHANGED shared

\* the next call of the list is no GET: request_json up to its await
ExecSend ==
    /\ pc = "exec_loop"
    /\ exe[1].i <= Len(exe[1].calls)
    /\ LET call == exe[1].calls[exe[1].i]
           o    == RequestPrologue(call.method, call.path, Some(call.params),
                                   call.body)
       IN  /\ Upper(call.method) # "GET"
           /\ PrologueClient
           /\ NoteFailure(o.raised)
           /\ IF o.raised
              THEN /\ Deliver(o)
                   /\ UNCHANGED <<net, sent>>
              ELSE /\ net' = Some(o.value)
                   /\ sent' = Append(sent, o.value)
                   /\ pc' = "req_await"
                   /\ UNCHANGED <<exe, ret>>
    /\ UNCHANGED <<arg, config, hcm, pag, recv>>
    /\ UNCHANGED <<state, stages>>
    /\ UNCHANGED shared

\* the response to a request of execute_calls itself arrives
ExecReceive ==
    /\ pc = "req_await"
    /\ \E resp \in HcmResponses(net[1]) :
          LET o == RequestEpilogue(net[1], resp)
          IN  /\ recv' = Append(recv, Received(resp, o))
              /\ NoteFailure(resp.kind = "exception" \/ resp.status_code >= 400)
              /\ Deliver(o)
    /\ net' = None
    /\ UNCHANGED <<arg, config, client, created, hcm, sent, pag>>
    /\ UNCHANGED <<state, stages>>
    /\ UNCHANGED shared

\* the list is exhausted: return results, to the caller of execute_calls or
\* to node_execute, which stores them and returns the state to the graph
ExecReturn ==
    /\ pc = "exec_loop"
    /\ exe[1].i > Len(exe[1].calls)
    /\ exe' = None
    /\ IF state = None
       THEN /\ ret' = Some(Return(exe[1].results))
            /\ pc' = "done"
            /\ UNCHANGED <<state, stages>>
       ELSE /\ state' = Some([state[1] EXCEPT !.results = exe[1].results])
            /\ stages' = Append(stages, <<"execute", "end">>)
            /\ pc' = Edges["execute"]
            /\ ret' = ret
    /\ UNCHANGED <<arg, config, client, created, hcm, net, sent, pag, failed, recv>>
    /\ UNCHANGED shared

-----------------------------------------------------------------------------
(* get_paginated called on its own                                         *)

\* page size and page count of the calls that do not use the defaults
SmallPageSize == 2

MaxPagesArg == 3

\* the sizes of the collection the server may hold
HcmSizes == {0, 1, 3, 37, 200, 237, 1000}

PaginatedArgs ==
    { [path |-> p, params |-> q, page_size |-> DEFAULT_PAGE_SIZE,
       max_pages |-> DEFAULT_MAX_PAGES] :
        p \in { <<"/", "hcmRestApi", "/", "resources", "/", "11.13.18.05", "/",
                  "userAccounts">> },
        q \in { None, Some({<<"PersonId", 7>>}), Some({<<"limit", 150>>}) } }
    \cup
    { [path |-> p, params |-> q, page_size |-> SmallPageSize, max_pages |-> m] :
        p \in { <<"hcmRestApi", "/", "resources", "/", "11.13.18.05", "/",
                  "userAccounts">> },
        q \in { None, Some({<<"PersonId", 7>>}), Some({<<"limit", 1>>}) },
        m \in 0..MaxPagesArg }

InitPaginate ==
    /\ pc = "call_get_paginated"
    /\ arg \in PaginatedArgs
    /\ ret = None
    /\ config \in Configs
    /\ client = None
    /\ created = 0
    /\ hcm \in HcmSizes
    /\ net = None
    /\ sent = <<>>
    /\ pag = None
    /\ exe = None
    /\ failed = {}
    /\ recv = <<>>
    /\ state = None
    /\ stages = <<>>
    /\ tasks = <<>>
    /\ closer = None
    /\ closed = {}

NextPaginate == GetPaginated \/ PagSend \/ PagReceive \/ PagReturn

SpecPaginate == InitPaginate /\ [][NextPaginate]_vars

\* the event loop runs the coroutine whenever it can go on, and the
\* transport answers or times out every request
SpecPaginateFair == SpecPaginate /\ WF_vars(NextPaginate)

-----------------------------------------------------------------------------
(* Properties of get_paginated                                             *)

\* the items of the p-th response when request_json returned a payload with
\* a list-valued items, None otherwise
ItemsOfPage(p) ==
    IF ~recv[p].outcome.raised /\ HasItemsList(recv[p].outcome.value)
    THEN Some(Get(recv[p].outcome.value, "items").v)
    ELSE None

Called == pc # "call_get_paginated"

\* at most max_pages requests, all of them GET, and none after a page that
\* failed, had no list-valued items or had fewer than page_size items
PagStops ==
    /\ Len(sent) <= arg.max_pages
    /\ \A p \in 1..Len(sent) : sent[p].method = "GET"
    /\ \A p \in 1..Len(recv) :
          (ItemsOfPage(p) = None \/ Len(ItemsOfPage(p)[1]) < arg.page_size)
              => Len(sent) = p

\* C7 as stated: get_paginated terminates after at most max_pages GET
\* requests, issues request p+1 only if page p had a list-valued items of
\* exactly page_size entries, and stops right after the first page that is
\* short or has no list-valued items.
C7_NextPageOnlyAfterExactlyFullPage ==
    /\ [](Called =>
            /\ PagStops
            /\ \A p \in 2..Len(sent) :
                  /\ ItemsOfPage(p - 1) # None
                  /\ Len(ItemsOfPage(p - 1)[1]) = arg.page_size)
    /\ <>(pc = "done")

\* C7 with "at least page_size entries" for "exactly": what the loop
\* guarantees whatever limit its requests carry.
C7_NextPageOnlyAfterFullPage ==
    /\ [](Called =>
            /\ PagStops
            /\ \A p \in 2..Len(sent) :
                  /\ ItemsOfPage(p - 1) # None
                  /\ Len(ItemsOfPage(p - 1)[1]) >= arg.page_size)
    /\ <>(pc = "done")

\* pages of 100, 100 and 37 items were fetched in three requests, and the
\* call has returned
C7_Witness ==
    /\ pc = "done"
    /\ ~ret[1].raised
    /\ arg.page_size = 100
    /\ Len(sent) = 3
    /\ Len(recv) = 3
    /\ \A p \in 1..3 : ItemsOfPage(p) # None
    /\ <<Len(ItemsOfPage(1)[1]), Len(ItemsOfPage(2)[1]), Len(ItemsOfPage(3)[1])>>
          = <<100, 100, 37>>

\* the items of the pages p.. of the responses, in order
RECURSIVE ItemsFrom(_)
ItemsFrom(p) ==
    IF p > Len(recv) THEN <<>>
    ELSE (IF ItemsOfPage(p) = None THEN <<>> ELSE ItemsOfPage(p)[1])
         \o ItemsFrom(p + 1)

\* C8: the result of get_paginated has every fetched payload in fetch order
\* under pages; it has an items aggregate, the concatenation of the items of
\* the pages in order, when some fetched page had a list-valued items, and it
\* has no items aggregate exactly when no fetched page had one.
C8_ItemsAggregate ==
    (pc = "done" /\ ~ret[1].raised) =>
        LET result == ret[1].value
            listed == {p \in 1..Len(recv) : ItemsOfPage(p) # None}
        IN  /\ Get(result, "pages") =
                   JList([p \in 1..Len(recv) |-> recv[p].outcome.value])
            /\ listed # {} =>
                   /\ "items" \in Keys(result)
                   /\ Get(result, "items") = JList(ItemsFrom(1))
            /\ "items" \notin Keys(result) <=> listed = {}

-----------------------------------------------------------------------------
(* execute_calls called on its own                                         *)

MaxExecCalls == 2

ExecCallShapes ==
    { [method |-> "GET", params |-> {}, body |-> None],
      [method |-> "post", params |-> {<<"PersonId", 7>>},
       body |-> Some({<<"Username", "jdoe">>})] }

\* the list whose n-th call has the shape sh[n]
ExecCalls(sh) ==
    [n \in 1..Len(sh) |->
        APICall(Description(n), sh[n].method,
                <<"/", "hcmRestApi", "/", "resources", "/", "11.13.18.05", "/",
                  "userAccounts">>,
                sh[n].params, sh[n].body)]

InitExecute ==
    /\ pc = "call_execute_calls"
    /\ \E k \in 0..MaxExecCalls : \E sh \in [1..k -> ExecCallShapes] :
          /\ arg = ExecCalls(sh)
          /\ hcm \in IF k <= 1 THEN {37, 237, 1000} ELSE {37, 237}
    /\ ret = None
    /\ config \in Configs
    /\ client = None
    /\ created = 0
    /\ net = None
    /\ sent = <<>>
    /\ pag = None
    /\ exe = None
    /\ failed = {}
    /\ recv = <<>>
    /\ state = None
    /\ stages = <<>>
    /\ tasks = <<>>
    /\ closer = None
    /\ closed = {}

NextExecute ==
    \/ ExecuteCalls
    \/ ExecGet
    \/ ExecSend
    \/ ExecReceive
    \/ ExecReturn
    \/ PagSend
    \/ PagReceive
    \/ PagReturn

SpecExecute == InitExecute /\ [][NextExecute]_vars

-----------------------------------------------------------------------------
(* Properties of execute_calls and request_json                            *)

\* C6: execute_calls returns, without raising, one result per call, result i
\* wrapping call i; result i has an error and an empty response exactly when
\* a request of call i failed (an error raised before or by the transport,
\* or an error status), and every call has been executed, also after a
\* failing one.
C6_OneResultPerCall ==
    pc = "done" =>
        /\ ~ret[1].raised
        /\ Len(ret[1].value) = Len(arg)
        /\ \A i \in 1..Len(arg) :
              /\ i <= Len(ret[1].value)
              /\ ret[1].value[i].call = arg[i]
              /\ (ret[1].value[i].error # None /\ ret[1].value[i].response = {})
                    <=> i \in failed
              /\ ret[1].value[i].error # None <=> i \in failed
              /\ i \in failed \/ \E k \in 1..Len(recv) : recv[k].call = i

\* the first of two calls failed, the second was executed and succeeded
C6_Witness ==
    /\ pc = "done"
    /\ Len(arg) = 2
    /\ failed = {1}
    /\ ret[1].value[1].error # None
    /\ ret[1].value[2].error = None
    /\ ret[1].value[2].response # {}

\* C9: request_json raises an error carrying the status code and the text
\* for every response whose status is not in 200..299 and returns a payload
\* for the others; execute_calls records every such response as the error of
\* the result of its call.
C9_Non2xxFails ==
    /\ \A k \in 1..Len(recv) :
          recv[k].response.kind = "response" =>
             LET status == recv[k].response.status_code
                 o      == recv[k].outcome
             IN  /\ o.raised <=> status \notin 200..299
                 /\ o.raised =>
                       /\ \E n \in 1..Len(o.value.msg) :
                             o.value.msg[n] = ToString(status)
                       /\ \E n \in 1..Len(o.value.msg) :
                             o.value.msg[n] = recv[k].response.text
    /\ pc = "done" =>
          \A k \in 1..Len(recv) :
             (/\ recv[k].response.kind = "response"
              /\ recv[k].response.status_code \notin 200..299)
                => ret[1].value[recv[k].call].error # None

-----------------------------------------------------------------------------
(* app/server/main.py and app/graph/agent.py: one chat request             *)

SPACE == " "

\* str.strip
RECURSIVE LStrip(_)
LStrip(s) == IF s # <<>> /\ Head(s) = SPACE THEN LStrip(Tail(s)) ELSE s

RECURSIVE RStrip(_)
RStrip(s) ==
    IF s # <<>> /\ s[Len(s)] = SPACE THEN RStrip(SubSeq(s, 1, Len(s) - 1)) ELSE s

\* mutant of Strip: only the leading whitespace is removed
Strip_LeadingOnly(s) == LStrip(s)

Strip(s) == RStrip(LStrip(s))

\* the JSON bodies posted to /chat: query missing, empty, blank, padded, plain
ChatBodies ==
    { [query |-> None, user_context |-> None],
      [query |-> Some(<<>>), user_context |-> None],
      [query |-> Some(<<SPACE, SPACE>>), user_context |-> Some({})],
      [query |-> Some(<<SPACE, "list users", SPACE>>),
       user_context |-> Some({<<"GUID", "ABC-123">>})],
      [query |-> Some(<<"list users">>), user_context |-> None] }

\* the plans the planner's chain may return
PlannerCalls ==
    << APICall(Description(1), "GET",
               <<"/", "hcmRestApi", "/", "resources", "/", "latest", "/",
                 "userAccounts">>,
               {<<"filter", "GUID eq ABC-123">>}, Some({<<"Username", "jdoe">>})),
       APICall(Description(2), "post",
               <<"/", "hcmRestApi", "/", "resources", "/", "latest", "/", "workers">>,
               {<<"PersonId", "7">>}, Some({<<"Username", "jdoe">>})) >>

PlannerPlans ==
    { Plan("list user accounts", calls) :
        calls \in { <<>>, <<PlannerCalls[1]>>, <<PlannerCalls[2]>>,
                    <<PlannerCalls[1], PlannerCalls[2]>>,
                    <<PlannerCalls[2], PlannerCalls[1]>> } }

\* chain.ainvoke of plan_calls: a parsed Plan, or the parser's exception
PlannerOutputs ==
    { Raise("OutputParserException", <<"Failed to parse Plan">>) }
    \cup { Return(plan) : plan \in PlannerPlans }

\* chain.ainvoke of craft_response: the model's text, or its exception
ResponderOutputs ==
    { Raise("LLMError", <<"responder failed">>),
      Return(<<"Here are the user accounts.">>) }

\* POST /chat up to graph.ainvoke
Chat ==
    /\ pc = "chat"
    /\ LET query    == Strip(IF arg.query = None THEN <<>> ELSE arg.query[1])
           user_ctx == IF arg.user_context = None \/ arg.user_context = Some({})
                       THEN None ELSE arg.user_context
       IN  IF query = <<>>
           THEN /\ ret' = Some(Raise("HTTPException", <<400, "query is required">>))
                /\ pc' = "done"
                /\ state' = state
           ELSE /\ state' = Some(AgentState(query, user_ctx))
                /\ pc' = EntryPoint
                /\ ret' = ret
    /\ UNCHANGED <<arg, config, client, created, hcm, net, sent, pag, exe,
                   failed, recv, stages>>
    /\ UNCHANGED shared

\* node_plan up to the await in plan_calls
NodePlan ==
    /\ pc = "plan"
    /\ stages' = Append(stages, <<"plan", "start">>)
    /\ pc' = "plan_await"
    /\ UNCHANGED <<arg, ret, config, client, created, hcm, net, sent, pag, exe,
                   failed, recv, state>>
    /\ UNCHANGED shared

\* mutant of PlanReturn: node_plan swallows the planner's exception and the
\* graph goes on without a plan
PlanReturn_SwallowError ==
    /\ pc = "plan_await"
    /\ \E o \in PlannerOutputs :
          IF o.raised
          THEN /\ stages' = Append(stages, <<"plan", "raised">>)
               /\ pc' = Edges["plan"]
               /\ state' = state
               /\ ret' = ret
          ELSE /\ state' = Some([state[1] EXCEPT
                             !.plan = Some(_constrain_plan_to_catalog(o.value))])
               /\ stages' = Append(stages, <<"plan", "end">>)
               /\ pc' = Edges["plan"]
               /\ ret' = ret
    /\ UNCHANGED <<arg, config, client, created, hcm, net, sent, pag, exe,
                   failed, recv>>
    /\ UNCHANGED shared

\* the chain returns: the plan is validated and stored; its exception
\* leaves node_plan, the graph and the handler
PlanReturn ==
    /\ pc = "plan_await"
    /\ \E o \in PlannerOutputs :
          IF o.raised
          THEN /\ ret' = Some(o)
               /\ pc' = "done"
               /\ stages' = Append(stages, <<"plan", "raised">>)
               /\ state' = state
          ELSE /\ state' = Some([state[1] EXCEPT
                             !.plan = Some(_constrain_plan_to_catalog(o.value))])
               /\ stages' = Append(stages, <<"plan", "end">>)
               /\ pc' = Edges["plan"]
               /\ ret' = ret
    /\ UNCHANGED <<arg, config, client, created, hcm, net, sent, pag, exe,
                   failed, recv>>
    /\ UNCHANGED shared

\* node_execute up to the loop of execute_calls
NodeExecute ==
    /\ pc = "execute"
    /\ IF state[1].plan = None
       THEN /\ pc' = Edges["execute"]
            /\ stages' = stages \o << <<"execute", "start">>, <<"execute", "end">> >>
            /\ exe' = exe
       ELSE /\ exe' = Some([calls |-> state[1].plan[1].api_calls, i |-> 1,
                            results |-> <<>>])
            /\ stages' = Append(stages, <<"execute", "start">>)
            /\ pc' = "exec_loop"
    /\ UNCHANGED <<arg, ret, config, client, created, hcm, net, sent, pag,
                   failed, recv, state>>
    /\ UNCHANGED shared

\* node_respond up to the await in craft_response
NodeRespond ==
    /\ pc = "respond"
    /\ stages' = Append(stages, <<"respond", "start">>)
    /\ pc' = "respond_await"
    /\ UNCHANGED <<arg, ret, config, client, created, hcm, net, sent, pag, exe,
                   failed, recv, state>>
    /\ UNCHANGED shared

\* the responder's chain returns: the answer is stored
RespondReturn ==
    /\ pc = "respond_await"
    /\ \E o \in ResponderOutputs :
          IF o.raised
          THEN /\ ret' = Some(o)
               /\ pc' = "done"
               /\ stages' = Append(stages, <<"respond", "raised">>)
               /\ state' = state
          ELSE /\ state' = Some([state[1] EXCEPT !.answer = Some(o.value)])
               /\ stages' = Append(stages, <<"respond", "end">>)
               /\ pc' = Edges["respond"]
               /\ ret' = ret
    /\ UNCHANGED <<arg, config, client, created, hcm, net, sent, pag, exe,
                   failed, recv>>
    /\ UNCHANGED shared

\* the graph has reached END: the handler returns answer and plan
GraphEnd ==
    /\ pc = "END"
    /\ ret' = Some(Return({ <<"answer", state[1].answer>>,
                            <<"plan", state[1].plan>> }))
    /\ pc' = "done"
    /\ UNCHANGED <<arg, config, client, created, hcm, net, sent, pag, exe,
                   failed, recv, state, stages>>
    /\ UNCHANGED shared

Init ==
    /\ pc = "chat"
    /\ arg \in ChatBodies
    /\ ret = None
    /\ config \in Configs
    /\ client = None
    /\ created = 0
    /\ hcm \in {37, 237, 1000}
    /\ net = None
    /\ sent = <<>>
    /\ pag = None
    /\ exe = None
    /\ failed = {}
    /\ recv = <<>>
    /\ state = None
    /\ stages = <<>>
    /\ tasks = <<>>
    /\ closer = None
    /\ closed = {}

Next ==
    \/ Chat
    \/ NodePlan
    \/ PlanReturn
    \/ NodeExecute
    \/ ExecGet
    \/ ExecSend
    \/ ExecReceive
    \/ ExecReturn
    \/ PagSend
    \/ PagReceive
    \/ PagReturn
    \/ NodeRespond
    \/ RespondReturn
    \/ GraphEnd

Spec == Init /\ [][Next]_vars

-----------------------------------------------------------------------------
(* Properties of the graph                                                 *)

StageOrder ==
    << <<"plan", "start">>, <<"plan", "end">>,
       <<"execute", "start">>, <<"execute", "end">>,
       <<"respond", "start">>, <<"respond", "end">> >>

\* the node that has started and not ended, "" when there is none
Running ==
    IF stages # <<>> /\ stages[Len(stages)][2] = "start"
    THEN stages[Len(stages)][1] ELSE ""

\* the stages have run in the order plan, execute, respond, each at most
\* once and one after the other, up to where the request is or where a
\* stage raised
InOrder ==
    LET n == Len(stages)
    IN  \/ stages = SubSeq(StageOrder, 1, n)
        \/ /\ n >= 2
           /\ stages[n] = <<stages[n - 1][1], "raised">>
           /\ stages[n - 1][2] = "start"
           /\ SubSeq(stages, 1, n - 1) = SubSeq(StageOrder, 1, n - 1)

\* C10: within one chat request the stages run in the order plan, execute,
\* respond, each at most once and never overlapping; requests go to HCM only
\* while the executor runs, the responder starts with one result per planned
\* call, and each stage writes its own field of the AgentState only: the
\* planner plan, the executor results, the responder answer, nobody
\* user_query or user_context.
C10_StagesInOrder ==
    /\ [](/\ InOrder
          /\ Running = "respond" =>
                Len(state[1].results) = Len(state[1].plan[1].api_calls))
    /\ [][sent' # sent => Running = "execute" /\ Running' = "execute"]_vars
    /\ [][(state # None /\ state' # None) =>
             /\ state'[1].user_query = state[1].user_query
             /\ state'[1].user_context = state[1].user_context
             /\ state'[1].plan # state[1].plan => Running = "plan"
             /\ state'[1].results # state[1].results => Running = "execute"
             /\ state'[1].answer # state[1].answer => Running = "respond"]_vars

\* a request whose plan had two calls went through the three stages and
\* has been answered
C10_Witness ==
    /\ pc = "done"
    /\ stages = StageOrder
    /\ Len(state[1].plan[1].api_calls) = 2
    /\ Len(state[1].results) = 2
    /\ sent # <<>>
    /\ state[1].answer # None
    /\ ~ret[1].raised

-----------------------------------------------------------------------------
(* Failures of a chat request                                              *)

\* the planner's chain raised while parsing the model's output
PlanFailed == \E n \in 1..Len(stages) : stages[n] = <<"plan", "raised">>

\* C11: when the model's output does not parse into a Plan the chat request
\* fails: the planner has been invoked once and is not invoked again, no
\* request goes to HCM, neither the executor nor the responder starts, the
\* state holds no plan, no result and no answer, and the request ends with
\* the parser's exception raised to the caller.
C11_ParseFailureFailsRequest ==
    PlanFailed =>
        /\ stages = << <<"plan", "start">>, <<"plan", "raised">> >>
        /\ sent = <<>>
        /\ exe = None
        /\ state[1].plan = None
        /\ state[1].results = <<>>
        /\ state[1].answer = None
        /\ pc = "done"
        /\ ret # None
        /\ ret[1].raised
        /\ ret[1].value.type = "OutputParserException"

\* a request with a query whose planner output did not parse has ended
C11_Witness ==
    /\ PlanFailed
    /\ pc = "done"
    /\ state # None
    /\ ret[1].raised

\* the configuration lacks what its auth_method needs
InvalidConfig ==
    \/ /\ config.auth_method = "basic"
       /\ (config.username = None \/ config.password = None)
    \/ /\ config.auth_method = "oauth"
       /\ config.oauth_token = None

\* the first use of the client has raised the configuration error
ConfigErrorRaised == InvalidConfig /\ failed # {}

\* C12: a configuration error (basic auth without username or password, or
\* oauth without a token, found at the first use of the client) is fatal
\* for the request: once it is raised the request has ended with that
\* ValueError raised to the caller, the client is not used again, and no
\* answer is produced.
C12_ConfigErrorIsFatal ==
    ConfigErrorRaised =>
        /\ pc = "done"
        /\ ret # None
        /\ ret[1].raised
        /\ ret[1].value.type = "ValueError"
        /\ Cardinality(failed) = 1
        /\ state[1].answer = None

-----------------------------------------------------------------------------
(* The query of a chat request                                             *)

\* the text posted as query, empty when the body has none
RawQuery == IF arg.query = None THEN <<>> ELSE arg.query[1]

Blank(s) == \A n \in 1..Len(s) : s[n] = SPACE

\* q is raw without the whitespace at its two ends
TrimOf(raw, q) ==
    /\ q # <<>>
    /\ q[1] # SPACE
    /\ q[Len(q)] # SPACE
    /\ \E i \in 0..Len(raw) :
          /\ SubSeq(raw, i + 1, i + Len(q)) = q
          /\ Blank(SubSeq(raw, 1, i))
          /\ Blank(SubSeq(raw, i + Len(q) + 1, Len(raw)))

\* C13: once the handler of POST /chat has run, a request whose query is
\* missing, empty or whitespace-only has ended with HTTP 400 and neither the
\* planner nor the executor nor the responder has been invoked; any other
\* request has started the pipeline at the planner with the trimmed query
\* as user_query.
C13_QueryRequiredAndTrimmed ==
    pc # "chat" =>
        IF Blank(RawQuery)
        THEN /\ pc = "done"
             /\ ret[1].raised
             /\ ret[1].value.type = "HTTPException"
             /\ ret[1].value.msg[1] = 400
             /\ state = None
             /\ stages = <<>>
             /\ sent = <<>>
        ELSE /\ state # None
             /\ TrimOf(RawQuery, state[1].user_query)
             /\ \/ pc = "plan" /\ stages = <<>>
                \/ stages # <<>> /\ stages[1] = <<"plan", "start">>

\* the request with a padded query is in the pipeline with the trimmed query
C13_Witness ==
    /\ state # None
    /\ RawQuery # state[1].user_query
    /\ RawQuery[1] = SPACE
    /\ stages # <<>>

-----------------------------------------------------------------------------
(* The query parameters of the pages                                       *)

\* the entries of a params mapping other than the two of the pagination
OtherParams(d) == {kv \in d : kv[1] \notin {"limit", "offset"}}

\* C14: in a call of get_paginated the request for page index p (the
\* (p+1)-th request sent) carries limit equal to page_size and offset equal
\* to p * page_size, and every other parameter of the caller, and nothing
\* else, unchanged.
C14_PageParamsFixed ==
    pc # "call_get_paginated" =>
        \A n \in 1..Len(sent) :
            LET q == sent[n].params[1]
            IN  /\ Get(q, "limit") = arg.page_size
                /\ Get(q, "offset") = (n - 1) * arg.page_size
                /\ OtherParams(q) = OtherParams(OrEmpty(arg.params))

-----------------------------------------------------------------------------
(* The validator applied twice                                             *)

Revalidated == pc = "revalidated"

\* C16: validating a validated plan changes nothing: the second result has
\* the intent and the number of calls of the first, and each call has the
\* method, path, params, body and description it had.
C16_ValidateIdempotent ==
    Revalidated =>
        /\ ret[1].intent = arg.intent
        /\ Len(ret[1].api_calls) = Len(arg.api_calls)
        /\ \A n \in 1..Len(arg.api_calls) :
              /\ Out(n).method = In(n).method
              /\ Out(n).path = In(n).path
              /\ Out(n).params = In(n).params
              /\ Out(n).body = In(n).body
              /\ Out(n).description = In(n).description

\* a validated plan with a matched POST call that has a body and an
\* unmatched GET call that has kept its body has been validated again
C16_Witness ==
    /\ Revalidated
    /\ \E n \in 1..Len(arg.api_calls) :
          /\ In(n).method = "POST"
          /\ In(n).body # None
          /\ MatchedEntry(n) # 0
          /\ Versioned(In(n).path)
    /\ \E n \in 1..Len(arg.api_calls) :
          /\ MatchedEntry(n) = 0
          /\ Upper(In(n).method) = "GET"
          /\ In(n).body # None

-----------------------------------------------------------------------------
(* Requests in flight at the same time on one client, and close()          *)

MaxTasks == 2

MaxRequests == 2

MaxCloses == 2

Tasks == 1..MaxTasks

\* a coroutine in request_json: where it is, how many requests it has
\* made, and its local variable client
Task(at, n, c) == [pc |-> at, n |-> n, client |-> c]

\* the coroutine that calls close(): where it is, how many calls it has
\* made, and the local variable client of close
Closer(at, n, c) == [pc |-> at, n |-> n, client |-> c]

InitShared ==
    /\ pc = "serving"
    /\ arg = None
    /\ ret = None
    /\ config \in Configs
    /\ client = None
    /\ created = 0
    /\ hcm = 37
    /\ net = None
    /\ sent = <<>>
    /\ pag = None
    /\ exe = None
    /\ failed = {}
    /\ recv = <<>>
    /\ state = None
    /\ stages = <<>>
    /\ tasks = [t \in Tasks |-> Task("idle", 0, None)]
    /\ closer = Closer("idle", 0, None)
    /\ closed = {}

\* task t calls request_json: the code up to the await of client.request
\* runs without suspension, _get_client has no await of its own
SharedRequest(t) ==
    /\ tasks[t].pc = "idle"
    /\ tasks[t].n < MaxRequests
    /\ LET o == RequestPrologue("GET", <<"/", "hcmRestApi", "/", "resources", "/",
                                         HCM_API_DEFAULT_VERSION, "/", "userAccounts">>,
                                None, None)
       IN  /\ PrologueClient
           /\ IF o.raised
              THEN /\ tasks' = [tasks EXCEPT ![t].n = @ + 1]
                   /\ sent' = sent
              ELSE /\ tasks' = [tasks EXCEPT ![t] = Task("await", @.n + 1, client')]
                   /\ sent' = Append(sent, o.value)
    /\ UNCHANGED <<pc, arg, ret, config, hcm, net, pag, exe, failed, recv,
                   state, stages, closer, closed>>

\* the response of task t arrives, or its exception: request_json ends
SharedResponse(t) ==
    /\ tasks[t].pc = "await"
    /\ tasks' = [tasks EXCEPT ![t] = Task("idle", @.n, None)]
    /\ UNCHANGED <<pc, arg, ret, config, client, created, hcm, net, sent, pag,
                   exe, failed, recv, state, stages, closer, closed>>

\* close() up to its await of client.aclose(); without a transport it
\* returns at once
CloseStart ==
    /\ closer.pc = "idle"
    /\ closer.n < MaxCloses
    /\ closer' = IF client = None
                 THEN Closer("idle", closer.n + 1, None)
                 ELSE Closer("await", closer.n + 1, client)
    /\ UNCHANGED <<pc, arg, ret, config, client, created, hcm, net, sent, pag,
                   exe, failed, recv, state, stages, tasks, closed>>

\* aclose() has returned: self._client = None
CloseEnd ==
    /\ closer.pc = "await"
    /\ closed' = closed \cup {closer.client[1]}
    /\ client' = None
    /\ closer' = Closer("idle", closer.n, None)
    /\ UNCHANGED <<pc, arg, ret, config, created, hcm, net, sent, pag, exe,
                   failed, recv, state, stages, tasks>>

NextShared ==
    \/ \E t \in Tasks : SharedRequest(t)
    \/ \E t \in Tasks : SharedResponse(t)
    \/ CloseStart
    \/ CloseEnd

SpecShared == InitShared /\ [][NextShared]_vars

\* the requests made so far by the tasks
RequestsMade == [t \in Tasks |-> tasks[t].n]

\* C15: with any number of requests in flight on one client, interleaved at
\* their awaits, a transport instance is constructed only at a use that
\* finds none, so at most once until a close() has released the one before;
\* a request that finds an instance takes that instance; the field changes
\* in two ways only, the first use that sets it to a new instance and the
\* end of close() that resets it to None; an instance is released by
\* close() only, and a request in flight holds the current instance unless
\* close() has released it meanwhile.
C15_OneTransportUntilClose ==
    /\ [](/\ created <= Cardinality(closed) + 1
          /\ client # None => client[1] = created /\ created \notin closed
          /\ \A t \in Tasks :
                tasks[t].pc = "await" =>
                    \/ tasks[t].client = client
                    \/ tasks[t].client[1] \in closed)
    /\ [][\A t \in Tasks :
             tasks'[t].pc = "await" /\ tasks[t].pc = "idle" =>
                 /\ tasks'[t].client = client'
                 /\ client # None => client' = client /\ created' = created]_vars
    /\ [][client' # client =>
             \/ /\ client = None
                /\ created' = created + 1
                /\ client' = Some(created')
                /\ RequestsMade' # RequestsMade
                /\ closed' = closed
             \/ /\ client' = None
                /\ closer.pc = "await"
                /\ closer'.pc = "idle"
                /\ closed' = closed \cup {client[1]}]_vars
    /\ [][closed' # closed => closer.pc = "await" /\ client' = None]_vars

\* two requests are in flight on the second instance, constructed once
\* after close() released the first, which had served two requests
C15_Witness ==
    /\ closed = {1}
    /\ created = 2
    /\ client = Some(2)
    /\ \A t \in {1, 2} : tasks[t] = Task("await", 2, Some(2))
    /\ Len(sent) = 4

=============================================================================
